---- MODULE Spec2Model ----
(***************************************************************************)
(* State-machine model of ClaudeSessionManager (session-manager-v1.1.ts):  *)
(* the line model built by initialize(), the selection handlers, and the   *)
(* save / restore workflows with their storage steps.                      *)
(*                                                                         *)
(* A text is a sequence of symbols.  "LF" and "CR" are the two line-ending *)
(* characters, "W" is one whitespace character, and every other symbol is  *)
(* an atom: a non-empty run of text without line endings.  The atoms of   *)
(* JsonAtoms are JSON values (see Parsed), "X" is text that is not JSON.   *)
(*                                                                         *)
(* Storage primitives (fs.readFile, fs.writeFile, fs.readdir) either take  *)
(* effect in full or throw without effect; which one is an input of the    *)
(* step that calls them.  new Date() is strictly later at every save of    *)
(* one run (a save is preceded by at least three interactive prompts).     *)
(***************************************************************************)
EXTENDS Integers, Sequences, FiniteSets, TLC

VARIABLES
    pc,               \* position of the program: start, menu, a step of save/restore, exited
    lines,            \* this.lines
    originalContent,  \* this.originalContent
    sessionFile,      \* content of the file at this.sessionFile
    backupDir,        \* files of this.backupDir: file name -> content
    clock,            \* last value new Date() returned to a save
    selectedLines,    \* saveChanges: const selectedLines
    backupFile,       \* saveChanges: const backupFile, kept until the next command starts
    backup,           \* restoreBackup: the chosen backup, kept until the next command starts
    content,          \* restoreBackup: const content
    initialContent,   \* history: content of the session file when the run started
    pre,              \* history: storage and session when the running command started
    last,             \* history: the command that ran last and how it ended
    io                \* history: storage calls of the running / last command, in order

vars == <<pc, lines, originalContent, sessionFile, backupDir, clock,
          selectedLines, backupFile, backup, content, initialContent, pre, last, io>>

----------------------------------------------------------------------------
(* Bounds *)

\* saves that reach the backup step in one run
MaxSaves == 2

\* symbols of a session file, where every text of that length is tried
MaxLen == 4

----------------------------------------------------------------------------
(* Texts *)

NoValue == "<absent>"

sessionId == <<"s1">>

\* JSON values of a content field, as far as initialize() tells them apart
Absent == [k |-> "absent"]
Str(s) == [k |-> "string", s |-> s]
List(items) == [k |-> "list", items |-> items]
Other(json, truthy) == [k |-> "other", json |-> json, truthy |-> truthy]
\* entries of a content list: an object with a type and maybe a text, or null
TextItem(t) == [null |-> FALSE, type |-> "text", text |-> t]
TypedItem(type) == [null |-> FALSE, type |-> type, text |-> NoValue]
NullItem == [null |-> TRUE, type |-> NoValue, text |-> NoValue]

\* a parsed JSON object, as far as initialize() looks at it: parsed.type,
\* parsed.message?.type, parsed.message?.role, parsed.content,
\* parsed.message?.content.  A field that is missing is NoValue / Absent.
Object(type, mtype, mrole, c, mc) ==
    [k |-> "object", type |-> type, mtype |-> mtype, mrole |-> mrole,
     content |-> c, mcontent |-> mc]

\* JSON.parse of the line `null`: every property access on it throws
Null == [Object(NoValue, NoValue, NoValue, Absent, Absent) EXCEPT !.k = "null"]

\* the parsed JSON value of each JSON atom:
\*   U  {"type":"user","content":"hi"}
\*   A  {"message":{"role":"assistant","content":[{"type":"text","text":"hello"}]}}
\*   S  {"type":"summary"}
\*   N  null
\*   E  {}
\*   T  {"type":"","message":{"role":"user","content":"yo"}}
\*   M  {"message":{"type":"message","role":"user","content":0}}
\*   F  {"type":"system","message":{"content":false}}
\*   O  {"type":"user","message":{"content":{"a":1}}}
\*   L  {"type":"assistant","message":{"content":[{"type":"tool_use"},{"type":"text","text":""}]}}
\*   P  {"type":"user","message":{"content":[{"type":"text","text":"a"},{"type":"image"},{"type":"text","text":"b"}]}}
\*   Z  {"type":"user","message":{"content":[null]}}
\*   C  {"type":"user","content":"top","message":{"content":"nested"}}
\*   V  {"type":"user","content":["x"]}
Parsed(atom) ==
    CASE atom = "U" -> Object("user", NoValue, NoValue, Str("hi"), Absent)
      [] atom = "A" -> Object(NoValue, NoValue, "assistant", Absent,
                              List(<<TextItem("hello")>>))
      [] atom = "S" -> Object("summary", NoValue, NoValue, Absent, Absent)
      [] atom = "N" -> Null
      [] atom = "E" -> Object(NoValue, NoValue, NoValue, Absent, Absent)
      [] atom = "T" -> Object("", NoValue, "user", Absent, Str("yo"))
      [] atom = "M" -> Object(NoValue, "message", "user", Absent, Other("0", FALSE))
      [] atom = "F" -> Object("system", NoValue, NoValue, Absent, Other("false", FALSE))
      [] atom = "O" -> Object("user", NoValue, NoValue, Absent, Other("{\"a\":1}", TRUE))
      [] atom = "L" -> Object("assistant", NoValue, NoValue, Absent,
                              List(<<TypedItem("tool_use"), TextItem("")>>))
      [] atom = "P" -> Object("user", NoValue, NoValue, Absent,
                              List(<<TextItem("a"), TypedItem("image"), TextItem("b")>>))
      [] atom = "Z" -> Object("user", NoValue, NoValue, Absent, List(<<NullItem>>))
      [] atom = "C" -> Object("user", NoValue, NoValue, Str("top"), Str("nested"))
      [] atom = "V" -> Object("user", NoValue, NoValue, List(<<TextItem("x")>>), Absent)

JsonAtoms == {"U", "A", "S", "N", "E", "T", "M", "F", "O", "L", "P", "Z", "C", "V"}

\* String.prototype.trim / JSON whitespace: the symbols stripped from both ends
IsSpace(c) == c \in {"W", "CR"}

RECURSIVE TrimLeft(_)
TrimLeft(s) == IF s # <<>> /\ IsSpace(Head(s)) THEN TrimLeft(Tail(s)) ELSE s

RECURSIVE TrimRight(_)
TrimRight(s) ==
    IF s # <<>> /\ IsSpace(s[Len(s)]) THEN TrimRight(SubSeq(s, 1, Len(s) - 1)) ELSE s

Trim(s) == TrimRight(TrimLeft(s))

\* JSON.parse(line) returns normally
JsonParses(line) == Len(Trim(line)) = 1 /\ Trim(line)[1] \in JsonAtoms

\* originalContent.split(/\r?\n/): a line ends at every LF; a CR right before
\* that LF belongs to the separator
RECURSIVE SplitFrom(_, _, _, _)
SplitFrom(text, i, cur, acc) ==
    IF i > Len(text) THEN Append(acc, cur)
    ELSE IF text[i] = "LF"
         THEN LET line == IF cur # <<>> /\ cur[Len(cur)] = "CR"
                          THEN SubSeq(cur, 1, Len(cur) - 1) ELSE cur
              IN SplitFrom(text, i + 1, <<>>, Append(acc, line))
         ELSE SplitFrom(text, i + 1, Append(cur, text[i]), acc)

\* variant: split('\n'), so a CR stays at the end of its line
RECURSIVE SplitOnLF(_)
SplitOnLF(text) ==
    IF \A i \in DOMAIN text : text[i] # "LF" THEN <<text>>
    ELSE LET p == CHOOSE i \in DOMAIN text :
                      text[i] = "LF" /\ \A j \in 1..(i - 1) : text[j] # "LF"
         IN <<SubSeq(text, 1, p - 1)>> \o SplitOnLF(SubSeq(text, p + 1, Len(text)))

\* variant: empty lines are dropped from the result
SplitDroppingEmpty(text) ==
    LET all == SplitFrom(text, 1, <<>>, <<>>)
        F[i \in 0..Len(all)] ==
            IF i = 0 THEN <<>>
            ELSE IF all[i] = <<>> THEN F[i - 1] ELSE Append(F[i - 1], all[i])
    IN F[Len(all)]

Split(text) == SplitFrom(text, 1, <<>>, <<>>)

\* variant: join('')
RECURSIVE JoinWithoutSeparator(_)
JoinWithoutSeparator(ls) ==
    IF ls = <<>> THEN <<>> ELSE ls[1] \o JoinWithoutSeparator(Tail(ls))

\* Array.prototype.join('\n')
RECURSIVE Join(_)
Join(ls) ==
    IF ls = <<>> THEN <<>>
    ELSE IF Len(ls) = 1 THEN ls[1]
    ELSE ls[1] \o <<"LF">> \o Join(Tail(ls))

----------------------------------------------------------------------------
(* initialize(): the line model *)

MessageTypes == {"user", "assistant", "message", "system"}

\* a string that counts as true: it is there and it is not ''
Truthy(v) == v \notin {NoValue, ""}

\* parsed.type || parsed.message?.type || parsed.message?.role || 'unknown'
MsgType(p) ==
    IF Truthy(p.type) THEN p.type
    ELSE IF Truthy(p.mtype) THEN p.mtype
    ELSE IF Truthy(p.mrole) THEN p.mrole
    ELSE "unknown"

\* .filter(item => item.type === 'text' && item.text).map(item => item.text).join('\n')
RECURSIVE TextOf(_)
TextOf(items) ==
    IF items = <<>> THEN ""
    ELSE LET rest == TextOf(Tail(items))
             keep == Head(items).type = "text" /\ Truthy(Head(items).text)
             more == \E i \in 2..Len(items) : items[i].type = "text" /\ Truthy(items[i].text)
         IN IF ~keep THEN rest
            ELSE IF more THEN Head(items).text \o "\n" \o rest
            ELSE Head(items).text

\* variant: content starts as undefined
ContentOfUndefined(p) ==
    IF p.content.k = "string" THEN p.content.s
    ELSE IF p.mcontent.k = "string" THEN p.mcontent.s
    ELSE IF p.mcontent.k = "list"
         THEN (IF TextOf(p.mcontent.items) # "" THEN TextOf(p.mcontent.items)
               ELSE "[Complex content]")
    ELSE IF p.mcontent.k = "other" /\ p.mcontent.truthy THEN p.mcontent.json
    ELSE NoValue

\* the statements inside the try block throw a TypeError: parsed.type on null,
\* or item.type on a null entry when the filter callback runs over the list
Throws(p) ==
    \/ p.k = "null"
    \/ /\ p.content.k # "string"
       /\ p.mcontent.k = "list"
       /\ \E i \in DOMAIN p.mcontent.items : p.mcontent.items[i].null

\* the if / else-if chain that fills `content`; it starts as ''
ContentOf(p) ==
    IF p.content.k = "string" THEN p.content.s
    ELSE IF p.mcontent.k = "string" THEN p.mcontent.s
    ELSE IF p.mcontent.k = "list"
         THEN (IF TextOf(p.mcontent.items) # "" THEN TextOf(p.mcontent.items)
               ELSE "[Complex content]")
    ELSE IF p.mcontent.k = "other" /\ p.mcontent.truthy THEN p.mcontent.json
    ELSE ""

\* variant: a blank line is not selected
ParseLineBlankDeselected(line, index) ==
    LET sessionLine == [index |-> index, line |-> line, type |-> NoValue,
                        content |-> NoValue, selected |-> TRUE, isMessage |-> FALSE]
    IN IF line = <<>> \/ Trim(line) = <<>> THEN [sessionLine EXCEPT !.selected = FALSE]
       ELSE IF JsonParses(line) /\ ~Throws(Parsed(Trim(line)[1]))
            THEN LET p == Parsed(Trim(line)[1])
                 IN [sessionLine EXCEPT !.type = MsgType(p),
                                        !.content = ContentOf(p),
                                        !.isMessage = MsgType(p) \in MessageTypes]
            ELSE sessionLine

\* the callback of rawLines.map; the catch block is empty, so a line whose
\* JSON.parse or whose extraction throws keeps the four initial fields
ParseLine(line, index) ==
    LET sessionLine == [index |-> index, line |-> line, type |-> NoValue,
                        content |-> NoValue, selected |-> TRUE, isMessage |-> FALSE]
    IN IF line = <<>> \/ Trim(line) = <<>> THEN sessionLine
       ELSE IF JsonParses(line) /\ ~Throws(Parsed(Trim(line)[1]))
            THEN LET p == Parsed(Trim(line)[1])
                 IN [sessionLine EXCEPT !.type = MsgType(p),
                                        !.content = ContentOf(p),
                                        !.isMessage = MsgType(p) \in MessageTypes]
            ELSE sessionLine

\* variant: the index counts the non-blank lines only
ParseLinesSkippingBlank(text) ==
    LET rawLines == Split(text)
    IN [i \in 1..Len(rawLines) |->
          ParseLine(rawLines[i],
                    Cardinality({j \in 1..(i - 1) : Trim(rawLines[j]) # <<>>}))]

\* indices are zero-based in the program; position i of the sequence holds index i - 1
ParseLines(text) ==
    LET rawLines == Split(text)
    IN [i \in 1..Len(rawLines) |-> ParseLine(rawLines[i], i - 1)]

----------------------------------------------------------------------------
(* Storage *)

\* the files a run can start from
InitialFiles ==
    { <<"U", "LF", "LF", "X">>,                 \* user record, blank, not JSON
      <<"U", "CR", "LF", "S", "LF">>,          \* CRLF, then LF, trailing newline
      <<"A", "LF", "W", "U">>,                 \* second line is " " + user record
      <<"U">>,
      <<>> }

\* every text of at most MaxLen symbols: a JSON record, text that is not JSON,
\* and the two line-ending characters (CR alone is whitespace inside a line)
Alphabet == {"U", "X", "CR", "LF"}
AllTexts == UNION {[1..k -> Alphabet] : k \in 0..MaxLen}

\* variant: the backup name leaves the timestamp out
FileNameWithoutTimestamp(sid, timestamp) == [sid |-> sid, ts |-> 0]

\* `${this.sessionId}.${timestamp}.jsonl` inside backupDir
FileName(sid, timestamp) == [sid |-> sid, ts |-> timestamp]

\* f.startsWith(`${this.sessionId}.`), on the dot-separated parts of the name
StartsWithId(f, sid) ==
    Len(sid) <= Len(f.sid) /\ SubSeq(f.sid, 1, Len(sid)) = sid

\* string order of two file names: the timestamp decides between names of one
\* session; a digit sorts before a letter otherwise
NameLess(a, b) ==
    IF a.sid = b.sid THEN a.ts < b.ts ELSE Len(a.sid) < Len(b.sid)

\* variant: .sort() without .reverse()
RECURSIVE SortOnly(_)
SortOnly(names) ==
    IF names = {} THEN <<>>
    ELSE LET low == CHOOSE n \in names : \A m \in names \ {n} : NameLess(n, m)
         IN <<low>> \o SortOnly(names \ {low})

\* .sort().reverse()
RECURSIVE SortReverse(_)
SortReverse(names) ==
    IF names = {} THEN <<>>
    ELSE LET top == CHOOSE n \in names : \A m \in names \ {n} : NameLess(m, n)
         IN <<top>> \o SortReverse(names \ {top})

\* backups.filter(f => f.startsWith(`${this.sessionId}.`)).sort().reverse()
SessionBackups(dir) ==
    SortReverse({f \in DOMAIN dir : StartsWithId(f, sessionId)})

\* sessionBackups.slice(0, 10)
MaxChoices == 10
Choices(sessionBackups) ==
    SubSeq(sessionBackups, 1, IF Len(sessionBackups) < MaxChoices
                              THEN Len(sessionBackups) ELSE MaxChoices)

\* fs.writeFile(path, data) that returned normally
WriteFile(dir, name, data) ==
    [f \in DOMAIN dir \cup {name} |-> IF f = name THEN data ELSE dir[f]]

EmptyDir == [f \in {} |-> <<>>]

----------------------------------------------------------------------------
(* History *)

Snapshot ==
    [sessionFile |-> sessionFile, backupDir |-> backupDir,
     lines |-> lines, originalContent |-> originalContent]

\* the history keeps a snapshot for load, save and restore only
NoSnapshot ==
    [sessionFile |-> <<>>, backupDir |-> EmptyDir, lines |-> <<>>, originalContent |-> <<>>]

\* how a command ended ("running" while it has not), with what it showed the user
EndedWith(op, result, shown) == [op |-> op, result |-> result, shown |-> shown]

NothingShown == [nothing |-> TRUE]

Ended(op, result) == EndedWith(op, result, NothingShown)

Call(name, ok) == [call |-> name, ok |-> ok]

\* the value of a local constant while its function is not running
NoLines == <<>>
NoFile == [sid |-> <<>>, ts |-> 0]
NoText == <<>>

----------------------------------------------------------------------------
(* The program *)

Init ==
    /\ pc = "start"
    /\ lines = <<>>
    /\ originalContent = <<>>
    /\ sessionFile \in InitialFiles
    /\ backupDir = EmptyDir
    /\ clock = 0
    /\ selectedLines = NoLines
    /\ backupFile = NoFile
    /\ backup = NoFile
    /\ content = NoText
    /\ initialContent = sessionFile
    /\ pre = NoSnapshot
    /\ last = Ended("none", "none")
    /\ io = <<>>

\* variant: the reload patches the line list, keeping the flags of the lines it had
InitializeKeepingFlags(ok) ==
    IF ok
    THEN /\ originalContent' = sessionFile
         /\ lines' = [i \in DOMAIN ParseLines(sessionFile) |->
                        IF i \in DOMAIN lines
                        THEN [ParseLines(sessionFile)[i] EXCEPT !.selected = lines[i].selected]
                        ELSE ParseLines(sessionFile)[i]]
    ELSE UNCHANGED <<originalContent, lines>>

\* initialize(): pathExists, ensureDir, readFile, split, map.  ok = none of the
\* storage calls threw; the assignments come after the last of them
Initialize(ok) ==
    IF ok
    THEN /\ originalContent' = sessionFile
         /\ lines' = ParseLines(sessionFile)
    ELSE UNCHANGED <<originalContent, lines>>

\* program.action: manager.initialize(), then the menu; a throw ends the process
Load(ok) ==
    /\ pc = "start"
    /\ Initialize(ok)
    /\ pc' = IF ok THEN "menu" ELSE "exited"
    /\ pre' = Snapshot
    /\ last' = Ended("load", IF ok THEN "ok" ELSE "failed")
    /\ io' = <<Call("readSession", ok)>>
    /\ UNCHANGED <<sessionFile, backupDir, clock, selectedLines, backupFile, backup, content>>
    /\ UNCHANGED initialContent

\* variant: a selection handler keeps originalContent equal to the text of the
\* lines that are selected now
SelectionDoneSyncing(mode, shown) ==
    /\ pre' = NoSnapshot
    /\ last' = EndedWith(mode, "ok", shown)
    /\ io' = <<>>
    /\ backupFile' = NoFile
    /\ backup' = NoFile
    /\ originalContent' =
           LET kept == {i \in DOMAIN lines' : lines'[i].selected}
           IN IF kept = {} THEN <<>> ELSE lines'[CHOOSE i \in kept : TRUE].line
    /\ UNCHANGED <<pc, sessionFile, backupDir, clock, selectedLines, content>>
    /\ UNCHANGED initialContent

\* what a selection handler leaves alone, and what it records
SelectionDone(mode, shown) ==
    /\ pre' = NoSnapshot
    /\ last' = EndedWith(mode, "ok", shown)
    /\ io' = <<>>
    /\ backupFile' = NoFile
    /\ backup' = NoFile
    /\ UNCHANGED <<pc, originalContent, sessionFile, backupDir, clock,
                   selectedLines, content>>
    /\ UNCHANGED initialContent

\* variant: only the message lines are set
ToggleAllMessages(value) ==
    /\ pc = "menu"
    /\ lines' = [i \in DOMAIN lines |->
                   IF lines[i].isMessage THEN [lines[i] EXCEPT !.selected = value]
                   ELSE lines[i]]
    /\ SelectionDone(IF value THEN "all" ELSE "none", NothingShown)

\* selectMessages, case 'all' / case 'none'
ToggleAll(value) ==
    /\ pc = "menu"
    /\ lines' = [i \in DOMAIN lines |-> [lines[i] EXCEPT !.selected = value]]
    /\ SelectionDone(IF value THEN "all" ELSE "none", NothingShown)

\* variant: the update does not test isMessage
SelectIndividualAllLines(selected) ==
    /\ pc = "menu"
    /\ lines' = [i \in DOMAIN lines |->
                   [lines[i] EXCEPT !.selected = (lines[i].index \in selected)]]
    /\ SelectionDone("individual", [indices |-> selected])

\* selectIndividual: `selected` is the list the checkbox prompt returns.  The
\* prompt offers the message lines; the update loop is modelled for any list
\* of indices of the session
SelectIndividual(selected) ==
    /\ pc = "menu"
    /\ lines' = [i \in DOMAIN lines |->
                   IF lines[i].isMessage
                   THEN [lines[i] EXCEPT !.selected = (lines[i].index \in selected)]
                   ELSE lines[i]]
    /\ SelectionDone("individual", [indices |-> selected])

\* variant: byType counts the message lines only
GetStatsOfMessages ==
    LET typed == {j \in DOMAIN lines : lines[j].isMessage}
    IN [total |-> Len(lines),
        messages |-> Cardinality({j \in DOMAIN lines : lines[j].isMessage}),
        selected |-> Cardinality({j \in DOMAIN lines : lines[j].selected}),
        byType |-> [t \in {lines[j].type : j \in typed} |->
                      Cardinality({j \in typed : lines[j].type = t})]]

\* getStats()
GetStats ==
    LET typed == {j \in DOMAIN lines : lines[j].type # NoValue}
    IN [total |-> Len(lines),
        messages |-> Cardinality({j \in DOMAIN lines : lines[j].isMessage}),
        selected |-> Cardinality({j \in DOMAIN lines : lines[j].selected}),
        byType |-> [t \in {lines[j].type : j \in typed} |->
                      Cardinality({j \in typed : lines[j].type = t})]]

\* showStatistics: the table of getStats()
ShowStatistics ==
    /\ pc = "menu"
    /\ pre' = NoSnapshot
    /\ last' = EndedWith("stats", "ok", GetStats)
    /\ io' = <<>>
    /\ backupFile' = NoFile
    /\ backup' = NoFile
    /\ UNCHANGED <<pc, lines, originalContent, sessionFile, backupDir, clock,
                   selectedLines, content>>
    /\ UNCHANGED initialContent

\* Object.keys(this.getStats().byType)
Types == {lines[i].type : i \in {j \in DOMAIN lines : lines[j].type # NoValue}}

\* selectByType: let count = 0 ... count++
Count(msgType) == Cardinality({i \in DOMAIN lines : lines[i].type = msgType})

\* variant: a message type matches every message line
SelectByTypeAnyMessage(msgType, shouldSelect) ==
    /\ pc = "menu"
    /\ lines' = [i \in DOMAIN lines |->
                   IF lines[i].type = msgType
                      \/ (msgType \in MessageTypes /\ lines[i].isMessage)
                   THEN [lines[i] EXCEPT !.selected = shouldSelect]
                   ELSE lines[i]]
    /\ SelectionDone("type", [msgType |-> msgType, shouldSelect |-> shouldSelect,
                               count |-> Count(msgType)])

\* selectByType; it prints `${action}ed ${count} ${msgType} messages`
SelectByType(msgType, shouldSelect) ==
    /\ pc = "menu"
    /\ lines' = [i \in DOMAIN lines |->
                   IF lines[i].type = msgType
                   THEN [lines[i] EXCEPT !.selected = shouldSelect]
                   ELSE lines[i]]
    /\ SelectionDone("type", [msgType |-> msgType, shouldSelect |-> shouldSelect,
                               count |-> Count(msgType)])

\* this.lines.filter(l => l.selected)
RECURSIVE Filter(_)
Filter(ls) ==
    IF ls = <<>> THEN <<>>
    ELSE IF Head(ls).selected THEN <<Head(ls)>> \o Filter(Tail(ls))
    ELSE Filter(Tail(ls))

\* variant: the output ends with a newline
OutputWithTrailingNewline(sel) == Join([i \in DOMAIN sel |-> sel[i].line]) \o <<"LF">>

\* selectedLines.map(l => l.line).join('\n')
Output(sel) == Join([i \in DOMAIN sel |-> sel[i].line])

\* variant: the backup is written before the confirm prompt is answered
SaveChangesBackupFirst(confirm) ==
    /\ pc = "menu"
    /\ clock < MaxSaves
    /\ pre' = Snapshot
    /\ io' = <<>>
    /\ backupDir' = WriteFile(backupDir, FileName(sessionId, clock + 1), originalContent)
    /\ IF ~confirm
       THEN /\ last' = Ended("save", "cancelled")
            /\ UNCHANGED <<pc, selectedLines>>
       ELSE /\ last' = Ended("save", "running")
            /\ selectedLines' = Filter(lines)
            /\ pc' = "save_backup"
    /\ backupFile' = NoFile
    /\ backup' = NoFile
    /\ UNCHANGED <<lines, originalContent, sessionFile, clock, content>>
    /\ UNCHANGED initialContent

\* saveChanges up to the confirm prompt
SaveChanges(confirm) ==
    /\ pc = "menu"
    /\ clock < MaxSaves
    /\ pre' = Snapshot
    /\ io' = <<>>
    /\ IF ~confirm
       THEN /\ last' = Ended("save", "cancelled")
            /\ UNCHANGED <<pc, selectedLines>>
       ELSE /\ last' = Ended("save", "running")
            /\ selectedLines' = Filter(lines)
            /\ pc' = "save_backup"
    /\ backupFile' = NoFile
    /\ backup' = NoFile
    /\ UNCHANGED <<lines, originalContent, sessionFile, backupDir, clock, content>>
    /\ UNCHANGED initialContent

\* variant: the backup is given the text that is about to be written
BackupDataOutput == Output(selectedLines)

\* the data the backup write is given
BackupData == originalContent

\* variant: a failed backup write does not stop the save
SaveWriteBackupUnchecked(ok) ==
    /\ pc = "save_backup"
    /\ clock' = clock + 1
    /\ io' = Append(io, Call("writeBackup", ok))
    /\ backupFile' = FileName(sessionId, clock')
    /\ backupDir' = IF ok THEN WriteFile(backupDir, backupFile', BackupData) ELSE backupDir
    /\ pc' = "save_write"
    /\ UNCHANGED <<last, selectedLines>>
    /\ UNCHANGED <<lines, originalContent, sessionFile, backup, content, pre>>
    /\ UNCHANGED initialContent

\* saveChanges: timestamp, backupFile, fs.writeFile(backupFile, this.originalContent)
SaveWriteBackup(ok) ==
    /\ pc = "save_backup"
    /\ clock' = clock + 1
    /\ io' = Append(io, Call("writeBackup", ok))
    /\ backupFile' = FileName(sessionId, clock')
    /\ IF ok
       THEN /\ backupDir' = WriteFile(backupDir, backupFile', BackupData)
            /\ pc' = "save_write"
            /\ UNCHANGED <<last, selectedLines>>
       ELSE /\ last' = Ended("save", "backupWriteFailed")
            /\ pc' = "menu"
            /\ selectedLines' = NoLines
            /\ UNCHANGED backupDir
    /\ UNCHANGED <<lines, originalContent, sessionFile, backup, content, pre>>
    /\ UNCHANGED initialContent

\* variant: a failed write of the session file is swallowed without a report
SaveWriteSessionUnreported(ok) ==
    /\ pc = "save_write"
    /\ io' = Append(io, Call("writeSession", ok))
    /\ IF ok
       THEN /\ sessionFile' = Output(selectedLines)
            /\ originalContent' = Output(selectedLines)
            /\ last' = Ended("save", "ok")
       ELSE UNCHANGED <<sessionFile, originalContent, last>>
    /\ pc' = "menu"
    /\ selectedLines' = NoLines
    /\ UNCHANGED <<lines, backupDir, clock, backupFile, backup, content, pre>>
    /\ UNCHANGED initialContent

\* variant: the save does not assign this.originalContent
SaveWriteSessionKeepingOriginal(ok) ==
    /\ pc = "save_write"
    /\ io' = Append(io, Call("writeSession", ok))
    /\ IF ok
       THEN /\ sessionFile' = Output(selectedLines)
            /\ last' = Ended("save", "ok")
       ELSE /\ last' = Ended("save", "sessionWriteFailed")
            /\ UNCHANGED sessionFile
    /\ pc' = "menu"
    /\ selectedLines' = NoLines
    /\ UNCHANGED <<lines, originalContent, backupDir, clock, backupFile, backup, content, pre>>
    /\ UNCHANGED initialContent

\* variant: after the write, this.lines holds the lines that were written
SaveWriteSessionDroppingLines(ok) ==
    /\ pc = "save_write"
    /\ io' = Append(io, Call("writeSession", ok))
    /\ IF ok
       THEN /\ sessionFile' = Output(selectedLines)
            /\ originalContent' = Output(selectedLines)
            /\ lines' = selectedLines
            /\ last' = Ended("save", "ok")
       ELSE /\ last' = Ended("save", "sessionWriteFailed")
            /\ UNCHANGED <<sessionFile, originalContent, lines>>
    /\ pc' = "menu"
    /\ selectedLines' = NoLines
    /\ UNCHANGED <<backupDir, clock, backupFile, backup, content, pre>>
    /\ UNCHANGED initialContent

\* variant: this.originalContent is assigned before the write is awaited
SaveWriteSessionAssignFirst(ok) ==
    /\ pc = "save_write"
    /\ io' = Append(io, Call("writeSession", ok))
    /\ originalContent' = Output(selectedLines)
    /\ IF ok
       THEN /\ sessionFile' = Output(selectedLines)
            /\ last' = Ended("save", "ok")
       ELSE /\ last' = Ended("save", "sessionWriteFailed")
            /\ UNCHANGED sessionFile
    /\ pc' = "menu"
    /\ selectedLines' = NoLines
    /\ UNCHANGED <<lines, backupDir, clock, backupFile, backup, content, pre>>
    /\ UNCHANGED initialContent

\* saveChanges: output, fs.writeFile(this.sessionFile, output), this.originalContent = output
SaveWriteSession(ok) ==
    /\ pc = "save_write"
    /\ io' = Append(io, Call("writeSession", ok))
    /\ IF ok
       THEN /\ sessionFile' = Output(selectedLines)
            /\ originalContent' = Output(selectedLines)
            /\ last' = Ended("save", "ok")
       ELSE /\ last' = Ended("save", "sessionWriteFailed")
            /\ UNCHANGED <<sessionFile, originalContent>>
    /\ pc' = "menu"
    /\ selectedLines' = NoLines
    /\ UNCHANGED <<lines, backupDir, clock, backupFile, backup, content, pre>>
    /\ UNCHANGED initialContent

\* variant: with no backup to offer, the session is reloaded from the session file
RestoreBackupReloading(ok) ==
    /\ pc = "menu"
    /\ pre' = Snapshot
    /\ io' = <<Call("readdir", ok)>>
    /\ IF ~ok
       THEN /\ last' = Ended("restore", "readdirFailed")
            /\ pc' = "exited"
            /\ backup' = NoFile
            /\ UNCHANGED <<lines, originalContent>>
       ELSE LET sessionBackups == SessionBackups(backupDir)
            IN IF Len(sessionBackups) = 0
               THEN /\ last' = Ended("restore", "noBackups")
                    /\ backup' = NoFile
                    /\ Initialize(TRUE)
                    /\ UNCHANGED pc
               ELSE /\ \E c \in 1..Len(Choices(sessionBackups)) :
                           backup' = Choices(sessionBackups)[c]
                    /\ last' = EndedWith("restore", "running", [choices |-> Choices(sessionBackups)])
                    /\ pc' = "restore_read"
                    /\ UNCHANGED <<lines, originalContent>>
    /\ backupFile' = NoFile
    /\ UNCHANGED <<sessionFile, backupDir, clock, selectedLines, content>>
    /\ UNCHANGED initialContent

\* restoreBackup up to the backup prompt; readdir is outside the try block, so
\* its throw leaves interactiveMenu and program.action exits the process
RestoreBackup(ok) ==
    /\ pc = "menu"
    /\ pre' = Snapshot
    /\ io' = <<Call("readdir", ok)>>
    /\ IF ~ok
       THEN /\ last' = Ended("restore", "readdirFailed")
            /\ pc' = "exited"
            /\ backup' = NoFile
       ELSE LET sessionBackups == SessionBackups(backupDir)
            IN IF Len(sessionBackups) = 0
               THEN /\ last' = Ended("restore", "noBackups")
                    /\ backup' = NoFile
                    /\ UNCHANGED pc
               ELSE /\ \E c \in 1..Len(Choices(sessionBackups)) :
                           backup' = Choices(sessionBackups)[c]
                    /\ last' = EndedWith("restore", "running", [choices |-> Choices(sessionBackups)])
                    /\ pc' = "restore_read"
    /\ backupFile' = NoFile
    /\ UNCHANGED <<lines, originalContent, sessionFile, backupDir, clock,
                   selectedLines, content>>
    /\ UNCHANGED initialContent

\* restoreBackup: fs.readFile(backupPath, 'utf8')
RestoreRead(ok) ==
    /\ pc = "restore_read"
    /\ io' = Append(io, Call("readBackup", ok))
    /\ IF ok
       THEN /\ content' = backupDir[backup]
            /\ pc' = "restore_write"
            /\ UNCHANGED <<last, backup>>
       ELSE /\ last' = Ended("restore", "readFailed")
            /\ pc' = "menu"
            /\ UNCHANGED <<backup, content>>
    /\ UNCHANGED <<lines, originalContent, sessionFile, backupDir, clock,
                   selectedLines, backupFile, pre>>
    /\ UNCHANGED initialContent

\* restoreBackup: fs.writeFile(this.sessionFile, content)
RestoreWrite(ok) ==
    /\ pc = "restore_write"
    /\ io' = Append(io, Call("writeSession", ok))
    /\ IF ok
       THEN /\ sessionFile' = content
            /\ pc' = "restore_init"
            /\ UNCHANGED <<last, backup, content>>
       ELSE /\ last' = Ended("restore", "sessionWriteFailed")
            /\ pc' = "menu"
            /\ content' = NoText
            /\ UNCHANGED <<sessionFile, backup>>
    /\ UNCHANGED <<lines, originalContent, backupDir, clock,
                   selectedLines, backupFile, pre>>
    /\ UNCHANGED initialContent

\* restoreBackup: await this.initialize(), inside the try block
RestoreInitialize(ok) ==
    /\ pc = "restore_init"
    /\ io' = Append(io, Call("readSession", ok))
    /\ Initialize(ok)
    /\ last' = Ended("restore", IF ok THEN "ok" ELSE "reloadFailed")
    /\ pc' = "menu"
    /\ content' = NoText
    /\ UNCHANGED <<sessionFile, backupDir, clock, selectedLines, backupFile, backup, pre>>
    /\ UNCHANGED initialContent

\* interactiveMenu, case 'exit'
Exit ==
    /\ pc = "menu"
    /\ pc' = "exited"
    /\ pre' = NoSnapshot
    /\ last' = Ended("exit", "ok")
    /\ io' = <<>>
    /\ backupFile' = NoFile
    /\ backup' = NoFile
    /\ UNCHANGED <<lines, originalContent, sessionFile, backupDir, clock,
                   selectedLines, content>>
    /\ UNCHANGED initialContent

MessageIndices == {lines[i].index : i \in {j \in DOMAIN lines : lines[j].isMessage}}

AllIndices == {lines[i].index : i \in DOMAIN lines}

\* the lists given to selectIndividual: any choice of message lines, alone or
\* together with the indices of the lines that are no messages
IndexLists ==
    {chosen \cup extra : chosen \in SUBSET MessageIndices,
                         extra \in {{}, AllIndices \ MessageIndices}}

Next ==
    \/ \E ok \in BOOLEAN : Load(ok)
    \/ \E value \in BOOLEAN : ToggleAll(value)
    \/ \E selected \in IndexLists : SelectIndividual(selected)
    \/ \E msgType \in Types, shouldSelect \in BOOLEAN : SelectByType(msgType, shouldSelect)
    \/ ShowStatistics
    \/ \E confirm \in BOOLEAN : SaveChanges(confirm)
    \/ \E ok \in BOOLEAN : SaveWriteBackup(ok)
    \/ \E ok \in BOOLEAN : SaveWriteSession(ok)
    \/ \E ok \in BOOLEAN : RestoreBackup(ok)
    \/ \E ok \in BOOLEAN : RestoreRead(ok)
    \/ \E ok \in BOOLEAN : RestoreWrite(ok)
    \/ \E ok \in BOOLEAN : RestoreInitialize(ok)
    \/ Exit

Spec == Init /\ [][Next]_vars

\* every storage call a command awaits settles: it returns or it throws
StorageSettles ==
    /\ WF_pc(\E ok \in BOOLEAN : SaveWriteBackup(ok))
    /\ WF_pc(\E ok \in BOOLEAN : SaveWriteSession(ok))
    /\ WF_pc(\E ok \in BOOLEAN : RestoreRead(ok))
    /\ WF_pc(\E ok \in BOOLEAN : RestoreWrite(ok))
    /\ WF_pc(\E ok \in BOOLEAN : RestoreInitialize(ok))

\* the commands that call storage, with select all / deselect all between them
NextCommands ==
    \/ \E ok \in BOOLEAN : Load(ok)
    \/ \E value \in BOOLEAN : ToggleAll(value)
    \/ \E confirm \in BOOLEAN : SaveChanges(confirm)
    \/ \E ok \in BOOLEAN : SaveWriteBackup(ok)
    \/ \E ok \in BOOLEAN : SaveWriteSession(ok)
    \/ \E ok \in BOOLEAN : RestoreBackup(ok)
    \/ \E ok \in BOOLEAN : RestoreRead(ok)
    \/ \E ok \in BOOLEAN : RestoreWrite(ok)
    \/ \E ok \in BOOLEAN : RestoreInitialize(ok)
    \/ Exit

FairSpec == Init /\ [][NextCommands]_vars /\ StorageSettles

\* a run that loads any text and saves it, without selection changes
InitAnyText ==
    /\ pc = "start"
    /\ lines = <<>>
    /\ originalContent = <<>>
    /\ sessionFile \in AllTexts
    /\ backupDir = EmptyDir
    /\ clock = 0
    /\ selectedLines = NoLines
    /\ backupFile = NoFile
    /\ backup = NoFile
    /\ content = NoText
    /\ initialContent = sessionFile
    /\ pre = NoSnapshot
    /\ last = Ended("none", "none")
    /\ io = <<>>

NextLoadSave ==
    \/ \E ok \in BOOLEAN : Load(ok)
    \/ \E confirm \in BOOLEAN : SaveChanges(confirm)
    \/ \E ok \in BOOLEAN : SaveWriteBackup(ok)
    \/ \E ok \in BOOLEAN : SaveWriteSession(ok)

LoadSaveSpec == InitAnyText /\ [][NextLoadSave]_vars

\* a run that starts with backups left by earlier runs and restores them,
\* without saving.  The backup directory holds up to MaxExisting backups of
\* this session, named with the timestamps of their saves (all before this
\* run's clock), and possibly a backup of a session whose id extends this one
\* after a dot, and one of an unrelated session
MaxExisting == 11
OtherIds == {<<"s1", "x">>, <<"s2">>}
BackupText(timestamp) == IF timestamp % 2 = 0 THEN <<"U">> ELSE <<"A", "LF", "X">>
ExistingDirs ==
    {[f \in {FileName(sessionId, 0 - k) : k \in 0..(n - 1)}
             \cup {FileName(sid, 0) : sid \in others}
        |-> IF f.sid = sessionId THEN BackupText(f.ts) ELSE <<"S">>]
     : n \in 0..MaxExisting, others \in SUBSET OtherIds}

InitWithBackups ==
    /\ pc = "start"
    /\ lines = <<>>
    /\ originalContent = <<>>
    /\ sessionFile = <<"U", "LF", "X">>
    /\ backupDir \in ExistingDirs
    /\ clock = 0
    /\ selectedLines = NoLines
    /\ backupFile = NoFile
    /\ backup = NoFile
    /\ content = NoText
    /\ initialContent = sessionFile
    /\ pre = NoSnapshot
    /\ last = Ended("none", "none")
    /\ io = <<>>

NextRestore ==
    \/ \E ok \in BOOLEAN : Load(ok)
    \/ \E ok \in BOOLEAN : RestoreBackup(ok)
    \/ \E ok \in BOOLEAN : RestoreRead(ok)
    \/ \E ok \in BOOLEAN : RestoreWrite(ok)
    \/ \E ok \in BOOLEAN : RestoreInitialize(ok)

RestoreSpec == InitWithBackups /\ [][NextRestore]_vars

\* a run that loads a file of one or two lines, each a JSON value of Parsed or
\* text that is not JSON
ParseTexts ==
    {<<a>> : a \in JsonAtoms \cup {"X"}}
        \cup {<<a, "LF", b>> : a \in JsonAtoms \cup {"X"}, b \in JsonAtoms \cup {"X"}}

InitParse ==
    /\ pc = "start"
    /\ lines = <<>>
    /\ originalContent = <<>>
    /\ sessionFile \in ParseTexts
    /\ backupDir = EmptyDir
    /\ clock = 0
    /\ selectedLines = NoLines
    /\ backupFile = NoFile
    /\ backup = NoFile
    /\ content = NoText
    /\ initialContent = sessionFile
    /\ pre = NoSnapshot
    /\ last = Ended("none", "none")
    /\ io = <<>>

NextParse == \E ok \in BOOLEAN : Load(ok)

ParseSpec == InitParse /\ [][NextParse]_vars

\* a run that loads any text, changes the selection and saves
NextAnyTextSelect ==
    \/ \E ok \in BOOLEAN : Load(ok)
    \/ \E value \in BOOLEAN : ToggleAll(value)
    \/ \E selected \in SUBSET MessageIndices : SelectIndividual(selected)
    \/ \E confirm \in BOOLEAN : SaveChanges(confirm)
    \/ \E ok \in BOOLEAN : SaveWriteBackup(ok)
    \/ \E ok \in BOOLEAN : SaveWriteSession(ok)

AnyTextSelectSpec == InitAnyText /\ [][NextAnyTextSelect]_vars

\* a run that changes the selection and saves, and never restores
NextSelectSave ==
    \/ \E ok \in BOOLEAN : Load(ok)
    \/ \E value \in BOOLEAN : ToggleAll(value)
    \/ \E selected \in IndexLists : SelectIndividual(selected)
    \/ \E msgType \in Types, shouldSelect \in BOOLEAN : SelectByType(msgType, shouldSelect)
    \/ \E confirm \in BOOLEAN : SaveChanges(confirm)
    \/ \E ok \in BOOLEAN : SaveWriteBackup(ok)
    \/ \E ok \in BOOLEAN : SaveWriteSession(ok)

SelectSaveSpec == Init /\ [][NextSelectSave]_vars

----------------------------------------------------------------------------
(* Properties of save and restore *)

WriteSessionDone == \E i \in DOMAIN io : io[i] = Call("writeSession", TRUE)

SomeDeselected(ls) == \E i \in DOMAIN ls : ~ls[i].selected

NewBackups == DOMAIN backupDir \ DOMAIN pre.backupDir

\* number of LF symbols of a text
RECURSIVE CountLF(_)
CountLF(text) ==
    IF text = <<>> THEN 0
    ELSE (IF Head(text) = "LF" THEN 1 ELSE 0) + CountLF(Tail(text))

\* the selected lines among ls[1..n], a single LF between two consecutive ones
RECURSIVE JoinedUpTo(_, _)
JoinedUpTo(ls, n) ==
    IF n = 0 THEN <<>>
    ELSE IF ~ls[n].selected THEN JoinedUpTo(ls, n - 1)
    ELSE IF \E i \in 1..(n - 1) : ls[i].selected
         THEN JoinedUpTo(ls, n - 1) \o <<"LF">> \o ls[n].line
    ELSE ls[n].line

SaveFailures == {"backupWriteFailed", "sessionWriteFailed"}
RestoreFailures == {"readdirFailed", "readFailed", "sessionWriteFailed", "reloadFailed"}

\* C1: in a save, the session file is written only after the backup write of
\* that same save has succeeded; when the backup write fails, the write of the
\* session file is not executed and the file keeps the content it had before
\* the save.
C1_BackupBeforeOverwrite ==
    last.op = "save" =>
        /\ \A i \in DOMAIN io :
               io[i].call = "writeSession" =>
                   \E j \in 1..(i - 1) : io[j] = Call("writeBackup", TRUE)
        /\ sessionFile # pre.sessionFile => backupFile \in NewBackups
        /\ last.result = "backupWriteFailed" =>
               /\ \A i \in DOMAIN io : io[i].call # "writeSession"
               /\ sessionFile = pre.sessionFile

\* a save stopped by a failed backup write, whose output would have changed the file
C1_Witness ==
    /\ last = Ended("save", "backupWriteFailed")
    /\ JoinedUpTo(lines, Len(lines)) # sessionFile

\* C2: every operation that overwrites the session file, save and restore
\* alike, has first written a backup that holds the content the session file
\* had immediately before the overwrite.
C2_BackupBeforeEveryOverwrite ==
    WriteSessionDone =>
        \E f \in NewBackups : backupDir[f] = pre.sessionFile

\* C3: between commands originalContent equals the content of the session file.
C3_OriginalContentIsSessionFile ==
    pc = "menu" => originalContent = sessionFile

\* C4: when the session-file write of a save fails after its backup write
\* succeeded, the backup of that save is on storage and holds the content the
\* session file had before the save, the session file still has that content,
\* and originalContent and the lines with their flags are as before the save.
C4_FailedWriteKeepsBackup ==
    last = Ended("save", "sessionWriteFailed") =>
        /\ backupFile \in NewBackups
        /\ backupDir[backupFile] = pre.sessionFile
        /\ sessionFile = pre.sessionFile
        /\ originalContent = pre.originalContent
        /\ lines = pre.lines

\* C5: a save that is not confirmed changes nothing: no backup is created, the
\* session file is not written, lines, flags and originalContent are unchanged.
C5_CancelledSaveChangesNothing ==
    last = Ended("save", "cancelled") =>
        /\ Snapshot = pre
        /\ io = <<>>

\* a cancelled save that would have changed the session file
C5_Witness ==
    /\ last = Ended("save", "cancelled")
    /\ SomeDeselected(lines)
    /\ JoinedUpTo(lines, Len(lines)) # sessionFile

\* C6: after a successful confirmed save the session file is exactly the text
\* of the selected lines, in index order, a single newline between two of them
\* and nothing before or after; lines written plus lines removed is the total.
C6_SaveWritesSelectedLines ==
    last = Ended("save", "ok") =>
        LET written == Cardinality({i \in DOMAIN lines : lines[i].selected})
            removed == Cardinality({i \in DOMAIN lines : ~lines[i].selected})
        IN /\ sessionFile = JoinedUpTo(lines, Len(lines))
           /\ CountLF(sessionFile) = (IF written = 0 THEN 0 ELSE written - 1)
           /\ written + removed = Len(pre.lines)

\* a successful save that left out a line between two lines it wrote
C6_Witness ==
    /\ last = Ended("save", "ok")
    /\ \E i, j, k \in DOMAIN lines :
           /\ i < j /\ j < k
           /\ lines[i].selected /\ ~lines[j].selected /\ lines[k].selected

\* C7: after a successful restore the session file equals the chosen backup
\* verbatim and the session is a fresh parse of it: every line is selected,
\* whatever the flags were before, and the statistics show total = selected =
\* number of lines of the backup.
C7_RestoreReloads ==
    last = Ended("restore", "ok") =>
        /\ backup \in DOMAIN pre.backupDir
        /\ sessionFile = pre.backupDir[backup]
        /\ originalContent = pre.backupDir[backup]
        /\ Len(lines) = CountLF(pre.backupDir[backup]) + 1
        /\ lines = ParseLines(pre.backupDir[backup])
        /\ \A i \in DOMAIN lines : lines[i].selected /\ lines[i].index = i - 1
        /\ GetStats.total = Len(lines)
        /\ GetStats.selected = Len(lines)

\* a restore of a one-line backup into a session whose line was deselected
C7_Witness ==
    /\ last = Ended("restore", "ok")
    /\ SomeDeselected(pre.lines)
    /\ pre.sessionFile # sessionFile
    /\ GetStats.total = 1 /\ GetStats.messages = 1 /\ GetStats.selected = 1

\* C8: a restore that finds no backup of the session ends as "no backups" and
\* changes nothing: session file, backups, lines, flags and originalContent.
C8_RestoreWithoutBackups ==
    last = Ended("restore", "noBackups") =>
        /\ Snapshot = pre
        /\ io = <<Call("readdir", TRUE)>>
        /\ pc = "menu"

\* a restore without backups in a session with a deselected line
C8_Witness ==
    /\ last = Ended("restore", "noBackups")
    /\ SomeDeselected(lines)

\* C9: each successful save creates exactly one new backup, and no step of any
\* command deletes a backup or changes its content.
C9_BackupsAccumulate ==
    /\ [](last = Ended("save", "ok") => Cardinality(NewBackups) = 1)
    /\ [][\A f \in DOMAIN backupDir :
              f \in DOMAIN backupDir' /\ backupDir'[f] = backupDir[f]]_vars

\* a second successful save, next to the backup of the first one
C9_Witness ==
    /\ last = Ended("save", "ok")
    /\ Cardinality(DOMAIN backupDir) = 2
    /\ \E f, g \in DOMAIN backupDir : backupDir[f] # backupDir[g]

\* C10: when a save or a restore fails at any of its steps, the lines, their
\* flags and originalContent are the same as before the command started.
C10_FailureKeepsSession ==
    (\/ last.op = "save" /\ last.result \in SaveFailures
     \/ last.op = "restore" /\ last.result \in RestoreFailures) =>
        /\ lines = pre.lines
        /\ originalContent = pre.originalContent

\* a restore whose reload failed after the session file was overwritten
C10_Witness ==
    /\ last = Ended("restore", "reloadFailed")
    /\ sessionFile # pre.sessionFile
    /\ SomeDeselected(lines)

----------------------------------------------------------------------------
(* Properties of the line model and of the selection handlers *)

IsBlank(line) == \A i \in DOMAIN line : line[i] \in {"W", "CR"}

\* a line that is neither blank nor one JSON value
IsMalformed(line) == ~IsBlank(line) /\ ~JsonParses(line)

LoadedOk == last.op \in {"load", "restore"} /\ last.result = "ok"

\* C11: immediately after every load, the initial one and the reload of a
\* restore, every line is selected, whatever kind of line it is.
C11_AllSelectedAfterLoad ==
    LoadedOk => \A i \in DOMAIN lines : lines[i].selected

\* a reload over deselected lines that yields a message, a blank and a malformed line
C11_Witness ==
    /\ last.op = "restore" /\ last.result = "ok"
    /\ SomeDeselected(pre.lines)
    /\ \E i, j, k \in DOMAIN lines :
           lines[i].isMessage /\ IsBlank(lines[j].line) /\ IsMalformed(lines[k].line)

\* C12: in every reachable state the line at position i has index i (counted
\* from zero); a save that leaves earlier lines out reassigns no index.
C12_IndexIsPosition ==
    \A i \in DOMAIN lines : lines[i].index = i - 1

\* a successful save that left the first line out and wrote a later one
C12_Witness ==
    /\ last.op = "save" /\ last.result = "ok"
    /\ Len(lines) >= 2
    /\ ~lines[1].selected
    /\ \E i \in 2..Len(lines) : lines[i].selected /\ lines[i].index = i - 1

\* a text with every CR that stands right before an LF removed
RECURSIVE Normalised(_)
Normalised(text) ==
    IF text = <<>> THEN <<>>
    ELSE IF Len(text) >= 2 /\ text[1] = "CR" /\ text[2] = "LF"
         THEN <<"LF">> \o Normalised(SubSeq(text, 3, Len(text)))
    ELSE <<Head(text)>> \o Normalised(Tail(text))

\* C13: loading a file and saving it at once, all lines selected and the save
\* confirmed, leaves the session file with the same line texts in the same
\* order joined by newline, that is the loaded text with its line endings
\* normalised, and the backup of that save equals the loaded text.
C13_RoundTrip ==
    (/\ last.op = "save" /\ last.result = "ok"
     /\ pre.originalContent = pre.sessionFile
     /\ pre.lines = ParseLines(pre.sessionFile)) =>
        /\ sessionFile = Normalised(pre.sessionFile)
        /\ sessionFile = JoinedUpTo(pre.lines, Len(pre.lines))
        /\ backupFile \in NewBackups
        /\ backupDir[backupFile] = pre.sessionFile

\* a round trip of a text of several lines with a CRLF line ending
C13_Witness ==
    /\ last.op = "save" /\ last.result = "ok"
    /\ pre.originalContent = pre.sessionFile
    /\ pre.lines = ParseLines(pre.sessionFile)
    /\ Len(pre.lines) >= 2
    /\ sessionFile # pre.sessionFile

\* positions of the LF symbols of a text, and the n-th of them
LFPositions(text) == {p \in DOMAIN text : text[p] = "LF"}
NthLF(text, n) ==
    CHOOSE p \in LFPositions(text) : Cardinality({q \in LFPositions(text) : q <= p}) = n

\* the i-th line of a text (from 1): what stands between two line endings
LineText(text, i) ==
    LET ended == i <= Cardinality(LFPositions(text))
        first == IF i = 1 THEN 1 ELSE NthLF(text, i - 1) + 1
        stop  == IF ended THEN NthLF(text, i) - 1 ELSE Len(text)
        until == IF ended /\ stop >= first /\ text[stop] = "CR" THEN stop - 1 ELSE stop
    IN SubSeq(text, first, until)

\* C19: a load does not fail because of what the lines hold: for any mix of
\* JSON, malformed and blank lines it yields one line record per line of the
\* file, in file order (a trailing newline gives a last, blank record), and
\* every blank or malformed line is no message, has no type and no content,
\* keeps its text and is selected.
C19_LoadToleratesAnyLine ==
    /\ (last.op = "load" /\ last.result = "failed") => io = <<Call("readSession", FALSE)>>
    /\ (last.op = "load" /\ last.result = "ok") =>
           /\ Len(lines) = Cardinality(LFPositions(sessionFile)) + 1
           /\ \A i \in DOMAIN lines :
                  /\ lines[i].line = LineText(sessionFile, i)
                  /\ (IsBlank(lines[i].line) \/ IsMalformed(lines[i].line)) =>
                         /\ ~lines[i].isMessage
                         /\ lines[i].type = NoValue
                         /\ lines[i].content = NoValue
                         /\ lines[i].selected

\* a loaded file with a JSON line, a malformed line and a trailing newline
C19_Witness ==
    /\ last.op = "load" /\ last.result = "ok"
    /\ Len(lines) = 3
    /\ lines[1].isMessage
    /\ IsMalformed(lines[2].line)
    /\ lines[3].line = <<>>
    /\ sessionFile[Len(sessionFile)] = "LF"

SelectionOps == {"all", "none", "individual", "type"}

\* C14: select all / deselect all sets the flag of every line, message or
\* not; afterwards the statistics show selected = total, respectively 0.
C14_ToggleAllSetsEveryLine ==
    /\ last.op = "all" =>
           /\ \A i \in DOMAIN lines : lines[i].selected
           /\ GetStats.selected = GetStats.total
    /\ last.op = "none" =>
           /\ \A i \in DOMAIN lines : ~lines[i].selected
           /\ GetStats.selected = 0

\* deselect all in a session that has a message, a blank and a malformed line
C14_Witness ==
    /\ last.op = "none"
    /\ \E i, j, k \in DOMAIN lines :
           lines[i].isMessage /\ IsBlank(lines[j].line) /\ IsMalformed(lines[k].line)

\* C15: select by type sets the flag of exactly the lines whose type is the
\* chosen one, leaves the flag of every other line (lines without a type
\* included) as it was, and counts the lines of that type.
C15_SelectByTypeFrame ==
    [][last'.op = "type" =>
          LET k == last'.shown.msgType
              v == last'.shown.shouldSelect
          IN /\ k # NoValue
             /\ Len(lines') = Len(lines)
             /\ \A i \in DOMAIN lines :
                    lines'[i].selected =
                        (IF lines[i].type = k THEN v ELSE lines[i].selected)
             /\ last'.shown.count = Cardinality({i \in DOMAIN lines : lines[i].type = k})
      ]_vars

\* a type was deselected while a line of another type and a line without type
\* stay selected
C15_Witness ==
    /\ last.op = "type"
    /\ ~last.shown.shouldSelect
    /\ last.shown.count >= 1
    /\ \E i, j, k \in DOMAIN lines :
           /\ lines[i].type = last.shown.msgType /\ ~lines[i].selected
           /\ lines[j].type \notin {NoValue, last.shown.msgType} /\ lines[j].selected
           /\ lines[k].type = NoValue /\ lines[k].selected

\* C16: the individual selection sets, for every message line, selected to
\* "its index is in the given list" and leaves the flag of every line that is
\* no message as it was, whatever the list holds.
C16_IndividualTouchesMessagesOnly ==
    [][last'.op = "individual" =>
          /\ Len(lines') = Len(lines)
          /\ \A i \in DOMAIN lines :
                 lines'[i].selected =
                     (IF lines[i].isMessage THEN lines[i].index \in last'.shown.indices
                      ELSE lines[i].selected)
      ]_vars

\* the list held the index of a deselected line that is no message, and of a message
C16_Witness ==
    /\ last.op = "individual"
    /\ \E i, j \in DOMAIN lines :
           /\ ~lines[i].isMessage /\ lines[i].index \in last.shown.indices /\ ~lines[i].selected
           /\ lines[j].isMessage /\ lines[j].index \in last.shown.indices /\ lines[j].selected

\* number of lines of ls that are messages / selected / of type t
RECURSIVE NumMessages(_)
NumMessages(ls) ==
    IF ls = <<>> THEN 0 ELSE (IF Head(ls).isMessage THEN 1 ELSE 0) + NumMessages(Tail(ls))
RECURSIVE NumSelected(_)
NumSelected(ls) ==
    IF ls = <<>> THEN 0 ELSE (IF Head(ls).selected THEN 1 ELSE 0) + NumSelected(Tail(ls))
RECURSIVE NumOfType(_, _)
NumOfType(ls, t) ==
    IF ls = <<>> THEN 0 ELSE (IF Head(ls).type = t THEN 1 ELSE 0) + NumOfType(Tail(ls), t)

StatsOf(st, ls) ==
    /\ st.total = Len(ls)
    /\ st.messages = NumMessages(ls)
    /\ st.selected = NumSelected(ls)
    /\ DOMAIN st.byType = {ls[i].type : i \in DOMAIN ls} \ {NoValue}
    /\ \A t \in DOMAIN st.byType : st.byType[t] = NumOfType(ls, t)

\* C17: in every reachable state the statistics are those of the current
\* lines: total, messages, selected, and for every type present on some line
\* its number of occurrences over all lines; what the statistics command shows
\* is computed from the lines as they are when it runs.
C17_StatisticsAreFresh ==
    /\ StatsOf(GetStats, lines)
    /\ last.op = "stats" => StatsOf(last.shown, lines)

\* statistics shown after a selection change, with a type that is no message
\* type and a line without type
C17_Witness ==
    /\ last.op = "stats"
    /\ last.shown.selected = 1
    /\ last.shown.total = 3
    /\ last.shown.messages = 1
    /\ "summary" \in DOMAIN last.shown.byType

\* C18: the selection handlers call no storage and change only selected
\* flags: session file, backups, originalContent, the number of lines and each
\* line's index, text, type, content and isMessage stay as they are.
C18_SelectionChangesFlagsOnly ==
    [][last'.op \in SelectionOps =>
          /\ sessionFile' = sessionFile
          /\ backupDir' = backupDir
          /\ originalContent' = originalContent
          /\ io' = <<>>
          /\ Len(lines') = Len(lines)
          /\ \A i \in DOMAIN lines :
                 [lines'[i] EXCEPT !.selected = lines[i].selected] = lines[i]
      ]_vars

\* a selection handler ran on a session of several lines with a non-empty file
C18_Witness ==
    /\ last.op \in SelectionOps
    /\ Len(lines) >= 3
    /\ SomeDeselected(lines)
    /\ \E i \in DOMAIN lines : lines[i].selected
    /\ originalContent = sessionFile
    /\ sessionFile # <<>>

\* the backup prompt is open: last.shown.choices is the list it offers
Offering == last.op = "restore" /\ last.result = "running"

Offered == {last.shown.choices[i] : i \in DOMAIN last.shown.choices}

OwnBackups == {f \in DOMAIN backupDir : f.sid = sessionId}

Matching == {f \in DOMAIN backupDir : StartsWithId(f, sessionId)}

\* the backups of the session appear in the list newest first
NewestFirst ==
    \A i, j \in DOMAIN last.shown.choices :
        (i < j /\ last.shown.choices[i].sid = sessionId /\ last.shown.choices[j].sid = sessionId)
            => last.shown.choices[i].ts > last.shown.choices[j].ts

\* C20 as stated: restore offers the backups of the session newest-first, and
\* every existing backup of the session is in the list, however many there are.
C20_EveryBackupOffered ==
    Offering => NewestFirst /\ OwnBackups \subseteq Offered

\* C20, amended: restore offers the first MaxChoices names, in descending
\* name order, of the files of the backup directory whose name starts with the
\* session id and a dot; the backups of the session in the list are newest
\* first, the chosen backup is one of the list, and a file left out of the
\* list sorts below every entry of it.
C20_FirstTenOffered ==
    Offering =>
        /\ Len(last.shown.choices) =
               (IF Cardinality(Matching) < MaxChoices THEN Cardinality(Matching)
                ELSE MaxChoices)
        /\ Offered \subseteq Matching
        /\ \A i, j \in DOMAIN last.shown.choices :
               i < j => NameLess(last.shown.choices[j], last.shown.choices[i])
        /\ NewestFirst
        /\ \A f \in Matching \ Offered : \A g \in Offered : NameLess(f, g)
        /\ backup \in Offered

\* eleven backups of the session exist, the oldest one offered was chosen and
\* is now the session; the eleventh was not offered
C20_Witness ==
    /\ last = Ended("restore", "ok")
    /\ Cardinality(OwnBackups) > MaxChoices
    /\ Matching = OwnBackups
    /\ backup = FileName(sessionId, 1 - MaxChoices)
    /\ sessionFile = backupDir[backup]
    /\ originalContent = backupDir[backup]

\* C21: after a successful save originalContent is the text just written to
\* the session file; in a run without restore the session file is written by
\* saves only, and the backup every save writes holds the session file as it
\* is then, so the backup of a second successful save holds the output of the
\* first.
C21_BackupHoldsPreviousOutput ==
    /\ [](last = Ended("save", "ok") =>
             /\ originalContent = sessionFile
             /\ sessionFile = Output(Filter(lines)))
    /\ [][(pc = "save_backup" /\ pc' = "save_write") =>
             backupDir'[backupFile'] = sessionFile]_vars
    /\ [][sessionFile' # sessionFile =>
             (pc = "save_write" /\ sessionFile' = Output(selectedLines))]_vars

\* a second successful save: its backup is the session file it found, which is
\* shorter than the content the first save backed up
C21_Witness ==
    /\ last = Ended("save", "ok")
    /\ backupFile = FileName(sessionId, 2)
    /\ FileName(sessionId, 1) \in DOMAIN backupDir
    /\ backupDir[backupFile] = pre.sessionFile
    /\ Len(backupDir[backupFile]) < Len(backupDir[FileName(sessionId, 1)])

\* C29: no step of a save changes this.lines; a successful save changes
\* originalContent only, so the lines left out stay in the session, deselected,
\* and are written again by a later save once they are selected again.
C29_SaveKeepsLines ==
    /\ [][last'.op = "save" => lines' = lines]_vars
    /\ [](last = Ended("save", "ok") =>
             /\ lines = pre.lines
             /\ Len(Filter(lines)) = Cardinality({i \in DOMAIN lines : lines[i].selected}))

\* after a save that left lines out, all lines were selected again and saved
C29_Witness ==
    /\ last = Ended("save", "ok")
    /\ Len(lines) >= 2
    /\ \A i \in DOMAIN lines : lines[i].selected
    /\ sessionFile = Join([i \in DOMAIN lines |-> lines[i].line])
    /\ Len(pre.sessionFile) < Len(sessionFile)
    /\ backupDir[backupFile] = pre.sessionFile

\* a save past its confirmation or a restore past its backup choice
InProgress == pc \in {"save_backup", "save_write", "restore_read", "restore_write", "restore_init"}

EndResults ==
    {"ok", "backupWriteFailed", "sessionWriteFailed", "readFailed", "reloadFailed"}

\* the storage calls a command in progress has made, by its position
CallsSoFar ==
    CASE pc = "save_backup" -> <<>>
      [] pc = "save_write" -> <<Call("writeBackup", TRUE)>>
      [] pc = "restore_read" -> <<Call("readdir", TRUE)>>
      [] pc = "restore_write" -> <<Call("readdir", TRUE), Call("readBackup", TRUE)>>
      [] pc = "restore_init" -> <<Call("readdir", TRUE), Call("readBackup", TRUE),
                                  Call("writeSession", TRUE)>>

\* C22: while a save or a restore is in progress it is the running command and
\* the storage calls made since it started are its own steps, in order (no
\* other command has started in between); and the command eventually ends,
\* with success or with a reported failure, back at the menu.
C22_OneCommandAtATime ==
    /\ [](InProgress =>
             /\ last.op = (IF pc \in {"save_backup", "save_write"} THEN "save" ELSE "restore")
             /\ last.result = "running"
             /\ io = CallsSoFar)
    /\ (InProgress ~> (pc = "menu" /\ last.op \in {"save", "restore"}
                                  /\ last.result \in EndResults))

\* a restore in progress after a save has ended
C22_Witness ==
    /\ pc = "restore_write"
    /\ last.op = "restore"
    /\ Len(io) = 2
    /\ FileName(sessionId, 1) \in DOMAIN backupDir

\* C26: a save or restore in which a storage step failed (listing the
\* backups, reading the backup, writing the backup, writing the session file,
\* reloading) ends at the menu, with the process still running.
C26_FailureReturnsToMenu ==
    (last.op \in {"save", "restore"} /\ last.result \in SaveFailures \cup RestoreFailures)
        => pc = "menu"

\* C30: the backups offered for restore are backups of this session, and the
\* backup that is restored into the session file is one of this session.
C30_OnlyOwnBackupsOffered ==
    /\ Offering => Offered \subseteq OwnBackups
    /\ pc \in {"restore_read", "restore_write", "restore_init"} => backup.sid = sessionId

\* C27: in a run that starts without backups, the content the session file
\* had when it was first loaded is, in every reachable state, the content of
\* the session file or of a file in the backup directory.
C27_InitialContentKept ==
    \/ sessionFile = initialContent
    \/ \E f \in DOMAIN backupDir : backupDir[f] = initialContent

\* two saves changed the session file, then the backup of the second save was
\* restored: the session file is not the initial content
C27_Witness ==
    /\ last = Ended("restore", "ok")
    /\ backup = FileName(sessionId, 2)
    /\ sessionFile # initialContent
    /\ backupDir[backup] # initialContent
    /\ backupDir[FileName(sessionId, 1)] = initialContent

\* the lines a load of the session file would give, and the lines selected
Reparsed == ParseLines(sessionFile)
Kept == Filter(lines)

EndsWithCR(line) == line # <<>> /\ line[Len(line)] = "CR"

\* C28 as stated: after a successful save, parsing the session file gives as
\* many lines as were selected, with the same text in the same order, for
\* every selection, the empty one included.
C28_ReparseGivesSelectedLines ==
    last = Ended("save", "ok") =>
        /\ Len(Reparsed) = Len(Kept)
        /\ \A i \in DOMAIN Kept : Reparsed[i].line = Kept[i].line

\* C28, amended: after a successful save with at least one line selected,
\* parsing the session file gives as many lines as were selected, in the same
\* order and with the same text, except that a selected line that ends with a
\* carriage return and is not the last selected line comes back without that
\* carriage return; after a save with no line selected the session file is
\* empty and parses as one blank line.
C28_ReparseUpToLineEndings ==
    last = Ended("save", "ok") =>
        IF Kept = <<>>
        THEN sessionFile = <<>> /\ Len(Reparsed) = 1 /\ Reparsed[1].line = <<>>
        ELSE /\ Len(Reparsed) = Len(Kept)
             /\ \A i \in DOMAIN Kept :
                    Reparsed[i].line =
                        (IF i < Len(Kept) /\ EndsWithCR(Kept[i].line)
                         THEN SubSeq(Kept[i].line, 1, Len(Kept[i].line) - 1)
                         ELSE Kept[i].line)

\* a save of two lines, the first of them a message that ends with a carriage
\* return
C28_Witness ==
    /\ last = Ended("save", "ok")
    /\ Len(Kept) = 2
    /\ Kept[1].isMessage
    /\ EndsWithCR(Kept[1].line)
    /\ Reparsed[1].line # Kept[1].line
    /\ Reparsed[2].line = Kept[2].line

\* the JSON value of a line that parses
ValueOf(line) == Parsed(Trim(line)[1])

Loaded == last.op = "load" /\ last.result = "ok"

\* the first of type, message.type, message.role that is present
FirstPresent(p) ==
    IF p.type # NoValue THEN p.type
    ELSE IF p.mtype # NoValue THEN p.mtype
    ELSE IF p.mrole # NoValue THEN p.mrole
    ELSE "unknown"

\* C23: every line that parses as JSON has as its type the first present of
\* the top-level type, the nested message's type, the nested message's role,
\* and "unknown" otherwise; it is a message exactly when that type is one of
\* user, assistant, message, system.
C23_TypeOfEveryJsonLine ==
    Loaded =>
        \A i \in DOMAIN lines :
            JsonParses(lines[i].line) =>
                /\ lines[i].type = FirstPresent(ValueOf(lines[i].line))
                /\ lines[i].isMessage = (lines[i].type \in MessageTypes)

\* one of the four preview rules applies to the value
HasContent(p) == p.content.k = "string" \/ p.mcontent.k \in {"string", "list", "other"}

\* the preview the four ordered rules give
RulePreview(p) ==
    IF p.content.k = "string" THEN p.content.s
    ELSE IF p.mcontent.k = "string" THEN p.mcontent.s
    ELSE IF p.mcontent.k = "list"
         THEN (IF \E i \in DOMAIN p.mcontent.items :
                      p.mcontent.items[i].type = "text" /\ Truthy(p.mcontent.items[i].text)
               THEN TextOf(p.mcontent.items) ELSE "[Complex content]")
    ELSE p.mcontent.json

\* C24: the content of a line that parses as JSON follows the ordered rules:
\* top-level string content; else nested string content; else for a nested
\* list the joined text of its non-empty text entries, or "[Complex content]";
\* else the JSON text of any other nested content that is not null, 0 and
\* false included.
C24_PreviewFollowsRules ==
    Loaded =>
        \A i \in DOMAIN lines :
            (JsonParses(lines[i].line) /\ HasContent(ValueOf(lines[i].line))) =>
                lines[i].content = RulePreview(ValueOf(lines[i].line))

\* C25 as stated: a line that parses as JSON and has neither a top-level
\* string content nor a nested content that is not null has no content field.
C25_NoContentIsAbsent ==
    Loaded =>
        \A i \in DOMAIN lines :
            (JsonParses(lines[i].line) /\ ~HasContent(ValueOf(lines[i].line))) =>
                lines[i].content = NoValue

\* C25, amended: such a line has the empty string as its content when its JSON
\* value is not null; the line `null` has no content field (and no type).
C25_NoContentIsEmptyString ==
    Loaded =>
        \A i \in DOMAIN lines :
            (JsonParses(lines[i].line) /\ ~HasContent(ValueOf(lines[i].line))) =>
                IF ValueOf(lines[i].line).k = "null"
                THEN lines[i].content = NoValue /\ lines[i].type = NoValue
                ELSE lines[i].content = "" /\ lines[i].type # NoValue

\* a loaded {"type":"summary"} line next to a line `null`
C25_Witness ==
    /\ Loaded
    /\ Len(lines) = 2
    /\ lines[1].line = <<"S">> /\ lines[1].content = "" /\ lines[1].type = "summary"
    /\ lines[2].line = <<"N">> /\ lines[2].content = NoValue

====
